---- MODULE Spec2Model ----
(***************************************************************************)
(* A model of the LSM storage engine of distrikv (package storage): the    *)
(* engine facade (lsm.go), the memtable, the SST registry                  *)
(* (sst_manager.go), the SST files (sst.go) and the compactors             *)
(* (compactor.go).                                                         *)
(*                                                                         *)
(* Abstractions.  Keys are the integers 1..NumKeys, ordered as the byte    *)
(* strings they stand for; no key or value holds ':' or a newline.  A file *)
(* is its list of record lines, the format they were written in, the level *)
(* and id its writer put into the trailer, and whether the trailer with    *)
(* the done marker was written.  Timestamps are left out: no decision of   *)
(* the code reads them.                                                    *)
(***************************************************************************)
EXTENDS Integers, Sequences, FiniteSets, TLC

\* ---------------------------------------------------------------- constants

\* lsm.go: var MemtableSizeThreshold = 5 (records)
MemtableSizeThreshold == 5

\* compactor.go: const MAX_SST_PER_LEVEL = 5
MAX_SST_PER_LEVEL == 5

\* SSTState (sst_manager.go, iota constants)
SST_FLUSHING == "FLUSHING"

SST_FLUSHED == "FLUSHED"

SST_COMPACTING == "COMPACTING"

SST_COMPACTED == "COMPACTED"

\* ------------------------------------------------------------------- bounds

\* keys and values of the codec are byte strings of these lengths
LongLen == 10

ShortLen == 2

\* the process is stopped and started again at most this often
MaxRestarts == 1

\* levels, ids and record counts of the descriptors whose trailer is written
\* and parsed on its own
MaxLevel == 2

MaxId == 4

MaxRecords == 2

\* keys are 1..NumKeys
NumKeys == 5

\* the writer stops once this many memtables have been frozen
MaxFrozen == 2

\* file names (uuid tokens) are 1..MaxFiles
MaxFiles == 7

\* under cancellation, the client writes only while at most this many
\* memtables exist
CancelFrozen == 1

\* with two threads, a write starts only while at most this many memtables exist
RaceFrozen == 1

Keys == 1..NumKeys

\* Values a client writes to a key; "" is the empty string.
ValuesOf(k) == IF k = 1 THEN {"", "x", "y"} ELSE {"x"}

\* Keys a client deletes.
DeleteKeys == {1, 2}

Writers == {"w1"}

\* The goroutines that can call Set and Delete.
Threads == {"w1", "w2"}

FileNames == 1..MaxFiles

\* ----------------------------------------------------------------- helpers

Range(s) == {s[i] : i \in DOMAIN s}

Max(S) == CHOOSE x \in S : \A y \in S : y <= x

Min(S) == CHOOSE x \in S : \A y \in S : x <= y

\* The elements of a finite set of integers in ascending order.
RECURSIVE SortedSeq(_)
SortedSeq(S) == IF S = {} THEN <<>> ELSE <<Min(S)>> \o SortedSeq(S \ {Min(S)})

SelectIdx(s, P(_)) == {i \in DOMAIN s : P(s[i])}

\* All orders in which the elements of S can be visited.
RECURSIVE Perms(_)
Perms(S) ==
    IF S = {} THEN {<<>>}
    ELSE UNION {{<<x>> \o p : p \in Perms(S \ {x})} : x \in S}

VARIABLES
    \* LSM (lsm.go)
    Memtable,            \* LSM.Memtable: the active memtable (its identity)
    mtStore,             \* the skiplist of every memtable allocated so far
    flushingMemtables,   \* LSM.flushingMemtables
    lsmMu,               \* LSM.mu: "free" or its holder
    wpc,                 \* position of each writer inside Set/Delete
    fpc,                 \* position of the flusher goroutine
    fmt,                 \* the memtable the flusher received
    \* SSTManager and the data directory
    levels,              \* SSTManager.levels: level -> sequence of SST
    counter,             \* per-level id counter
    disk,                \* the files of baseDir
    mgrMu,               \* SSTManager.mu: the levels whose compactor holds
                         \* it locked (none: free)
    levelMu,             \* levels whose SSTLevel.mu is held
    \* compactors (compactor.go)
    cpc,                 \* CompactorManager.compactors: per level, the
                         \* position of its compactor
    cjob,                \* the batch and output a compactor works on
    compactors,          \* CompactorManager.compactors: the levels of the
                         \* compactors, in the order they were started
    \* history, read by the properties only
    lastWrite,           \* per key, the last write that returned
    hist,                \* what the last registry operations did
    \* goroutines and calls
    wreq,                \* per writer, the memtable LSM.Set loaded from
                         \* l.Memtable and the record it is about to store
    ctx,                 \* the context of the workers: whether it is
                         \* cancelled, and the workers that returned
    pure                 \* argument and result of a function applied on
                         \* its own

lsmVars == <<Memtable, mtStore, flushingMemtables, lsmMu, wpc, fpc, fmt>>

regVars == <<levels, counter, mgrMu, levelMu>>

compVars == <<cpc, cjob, compactors>>

auxVars == <<wreq, ctx, pure>>

vars == <<lsmVars, regVars, disk, compVars, lastWrite, hist, auxVars>>

\* ---------------------------------------------------------------- memtable

\* NewMemtable: an empty skiplist
NewMemtable == <<>>

\* Memtable.Set(key, value, deleted): upsert by key (cmpMemtableEntry)
MemtableSet(m, key, value, deleted) ==
    [k \in (DOMAIN m) \cup {key} |->
        IF k = key THEN [Value |-> value, Deleted |-> deleted] ELSE m[k]]

\* Memtable.Get(key): the entry, or an entry with the empty value when the
\* skiplist reports ErrTargetNotFound
MemtableGet(m, key) ==
    IF key \in DOMAIN m
    THEN [Key |-> key, Value |-> m[key].Value, Deleted |-> m[key].Deleted]
    ELSE [Key |-> key, Value |-> "", Deleted |-> FALSE]

\* Memtable.Size: number of entries of the skiplist
MemtableSize(m) == Cardinality(DOMAIN m)

\* Memtable.Iterate: the entries in ascending key order
MemtableIterate(m) ==
    LET ks == SortedSeq(DOMAIN m)
    IN  [i \in 1..Len(ks) |->
            [Key |-> ks[i], Value |-> m[ks[i]].Value, Deleted |-> m[ks[i]].Deleted]]

\* --------------------------------------------------------------- SST files

NoFile == [name |-> 0]

FileOf(name) ==
    IF \E f \in disk : f.name = name
    THEN CHOOSE f \in disk : f.name = name
    ELSE NoFile

UsedNames == {f.name : f \in disk} \cup
             UNION {{s.FileName : s \in Range(levels[l])} : l \in DOMAIN levels}

FreshNames == FileNames \ UsedNames

\* The lines FlushSST writes: fmt.Sprintf("%s:%s\n", Key, Value) per entry.
\* The Deleted flag of the entry is not written.
FlushLines(m) ==
    LET it == MemtableIterate(m)
    IN  [i \in 1..Len(it) |->
            [Key |-> it[i].Key, Value |-> it[i].Value, IsDeleted |-> FALSE]]

\* A scanned line split at the first ':' (QueryKey): only a line written as
\* key:value has the two parts; a length-prefixed record has no ':'.
TextFind(f, key) ==
    IF f.format = "text" /\ \E i \in DOMAIN f.lines : f.lines[i].Key = key
    THEN LET i == Min({j \in DOMAIN f.lines : f.lines[j].Key = key})
         IN  [found |-> TRUE, Key |-> key, Value |-> f.lines[i].Value]
    ELSE [found |-> FALSE, Key |-> 0, Value |-> ""]

\* The lines of a file as strings.Split(tail, "\n") gives them.  FlushSST
\* writes its key:value lines and "<metadata>\nlevel: 0\ntimestamp: ..\n
\* <sst_done>"; compact writes its records, each ended by a newline, and
\* writeSSTMetadata adds "\n<metadata>\nlevel: L\ntimestamp: ..\nid: I\n
\* <sst_done>".  The tail read (at most 512 bytes, more than a trailer
\* takes) starts at or before the line in front of "level: ".
MetaLine(kind, n) == [kind |-> kind, n |-> n]

TailLines(f) ==
    [i \in DOMAIN f.lines |-> MetaLine("record", 0)] \o
    (IF ~f.done THEN <<>>
     ELSE IF f.format = "text"
     THEN <<MetaLine("<metadata>", 0), MetaLine("level: ", f.level),
            MetaLine("timestamp: ", 0), MetaLine("<sst_done>", 0)>>
     ELSE <<MetaLine("", 0), MetaLine("<metadata>", 0), MetaLine("level: ", f.level),
            MetaLine("timestamp: ", 0), MetaLine("id: ", f.id),
            MetaLine("<sst_done>", 0)>>)

\* parseSSTMetadata, the loop over the lines: a "level: ", "timestamp: " or
\* "id: " line is read; any other line ends the loop.
RECURSIVE ParseMetaLoop(_, _)
ParseMetaLoop(lines, sst) ==
    IF lines = <<>> THEN sst
    ELSE IF Head(lines).kind = "level: "
    THEN ParseMetaLoop(Tail(lines), [sst EXCEPT !.Level = Head(lines).n])
    ELSE IF Head(lines).kind = "timestamp: "
    THEN ParseMetaLoop(Tail(lines), sst)
    ELSE IF Head(lines).kind = "id: "
    THEN ParseMetaLoop(Tail(lines), [sst EXCEPT !.ID = Head(lines).n])
    ELSE sst

\* parseSSTMetadata without the test of the last line
ParseSSTMetadataAnyTail(f) ==
    [ok |-> TRUE,
     sst |-> ParseMetaLoop(TailLines(f),
                           [ID |-> 0, FileName |-> f.name, Level |-> 0, Status |-> SST_FLUSHED])]

\* parseSSTMetadata: ErrSSTIncomplete unless the last line is <sst_done>;
\* level and id start with their zero values.
ParseSSTMetadata(f) ==
    LET lines == TailLines(f)
        zero == [ID |-> 0, FileName |-> f.name, Level |-> 0, Status |-> SST_FLUSHED]
    IN  IF lines = <<>> \/ lines[Len(lines)].kind # "<sst_done>"
        THEN [ok |-> FALSE, sst |-> zero]
        ELSE [ok |-> TRUE, sst |-> ParseMetaLoop(lines, zero)]

\* parseSSTFiles: the files of the glob (in name order) whose metadata parse
ParseSSTFiles(files) ==
    LET names == SortedSeq({f.name : f \in files})
        byName(n) == CHOOSE f \in files : f.name = n
        good == SelectIdx(names, LAMBDA n : ParseSSTMetadata(byName(n)).ok)
        idx == SortedSeq(good)
    IN  [i \in 1..Len(idx) |-> ParseSSTMetadata(byName(names[idx[i]])).sst]

\* NewSSTManager: the parsed SSTs grouped by level, appended in glob order
NewSSTManager(files) ==
    LET ssts == ParseSSTFiles(files)
        lv == {ssts[i].Level : i \in DOMAIN ssts}
        at(l) == SortedSeq({i \in DOMAIN ssts : ssts[i].Level = l})
    IN  [l \in lv |-> [j \in 1..Len(at(l)) |-> ssts[at(l)[j]]]]

\* ------------------------------------------------------------------ lookup

NoData == [Key |-> 0, Value |-> "", err |-> FALSE]

\* QueryKey, the inner loop over level.ssts: data is overwritten by the
\* first matching line of an SST; the loop breaks once data.Key is set; an
\* SST whose file cannot be opened makes QueryKey return the error.
RECURSIVE ScanLevel(_, _, _)
ScanLevel(ssts, key, data) ==
    IF ssts = <<>> \/ data.err THEN data
    ELSE LET f == FileOf(Head(ssts).FileName)
         IN  IF f = NoFile THEN [Key |-> 0, Value |-> "", err |-> TRUE]
             ELSE LET r == TextFind(f, key)
                      d == IF r.found
                           THEN [Key |-> r.Key, Value |-> r.Value, err |-> FALSE]
                           ELSE data
                  IN  IF d.Key # 0 THEN d ELSE ScanLevel(Tail(ssts), key, d)

\* QueryKey, the outer loop over the levels map in the order given
RECURSIVE ScanLevels(_, _, _)
ScanLevels(order, key, data) ==
    IF order = <<>> \/ data.err THEN data
    ELSE ScanLevels(Tail(order), key, ScanLevel(levels[Head(order)], key, data))

\* The SSTs whose files the inner loop of QueryKey opens: every SST of the
\* level up to the one at which the loop breaks or returns the error.
RECURSIVE OpenedLevel(_, _, _)
OpenedLevel(ssts, key, data) ==
    IF ssts = <<>> \/ data.err THEN {}
    ELSE LET d == ScanLevel(<<Head(ssts)>>, key, data)
         IN  {Head(ssts)} \cup
             (IF d.Key # 0 \/ d.err THEN {} ELSE OpenedLevel(Tail(ssts), key, d))

\* The SSTs QueryKey opens over the levels in the order given
RECURSIVE OpenedLevels(_, _, _)
OpenedLevels(order, key, data) ==
    IF order = <<>> \/ data.err THEN {}
    ELSE OpenedLevel(levels[Head(order)], key, data) \cup
         OpenedLevels(Tail(order), key, ScanLevel(levels[Head(order)], key, data))

\* QueryKey(key): Go ranges over the levels map in an unspecified order, so
\* the result is one of these.
QueryKey(key) == {ScanLevels(o, key, NoData) : o \in Perms(DOMAIN levels)}

\* LSM.Get(key): the active memtable; when the value found there is the
\* empty string, the registry.  The possible results.
Get(key) ==
    LET data == MemtableGet(mtStore[Memtable], key)
    IN  IF data.Value = ""
        THEN {[Key |-> d.Key, Value |-> d.Value, err |-> d.err] : d \in QueryKey(key)}
        ELSE {[Key |-> data.Key, Value |-> data.Value, err |-> FALSE]}

\* --------------------------------------------------------------- LSM writes

\* LSM.Set: Memtable.Set(key, value, false), then checkFlush
Set(w, key, value) ==
    /\ wpc[w] = "idle"
    /\ Len(mtStore) <= MaxFrozen
    /\ mtStore' = [mtStore EXCEPT ![Memtable] = MemtableSet(@, key, value, FALSE)]
    /\ wpc' = [wpc EXCEPT ![w] = "checkFlush"]
    /\ lastWrite' = [lastWrite EXCEPT ![key] = [op |-> "set", Value |-> value]]
    /\ UNCHANGED <<Memtable, flushingMemtables, lsmMu, fpc, fmt>>
    /\ UNCHANGED <<regVars, disk, compVars, hist>>
    /\ UNCHANGED auxVars

\* LSM.Delete: Memtable.Set(key, "", false), then checkFlush
Delete(w, key) ==
    /\ wpc[w] = "idle"
    /\ Len(mtStore) <= MaxFrozen
    /\ mtStore' = [mtStore EXCEPT ![Memtable] = MemtableSet(@, key, "", FALSE)]
    /\ wpc' = [wpc EXCEPT ![w] = "checkFlush"]
    /\ lastWrite' = [lastWrite EXCEPT ![key] = [op |-> "delete", Value |-> ""]]
    /\ UNCHANGED <<Memtable, flushingMemtables, lsmMu, fpc, fmt>>
    /\ UNCHANGED <<regVars, disk, compVars, hist>>
    /\ UNCHANGED auxVars

\* checkFlush with > in place of >=
CheckFlushAbove(w) ==
    /\ wpc[w] = "checkFlush"
    /\ lsmMu = "free"
    /\ IF MemtableSize(mtStore[Memtable]) > MemtableSizeThreshold
       THEN /\ flushingMemtables' = Append(flushingMemtables, Memtable)
            /\ mtStore' = Append(mtStore, NewMemtable)
            /\ Memtable' = Len(mtStore) + 1
            /\ lsmMu' = w
            /\ wpc' = [wpc EXCEPT ![w] = "send"]
       ELSE /\ wpc' = [wpc EXCEPT ![w] = "idle"]
            /\ UNCHANGED <<Memtable, mtStore, flushingMemtables, lsmMu>>
    /\ UNCHANGED <<fpc, fmt>>
    /\ UNCHANGED <<regVars, disk, compVars, lastWrite, hist>>
    /\ UNCHANGED auxVars

\* checkFlush up to the channel send: l.mu.Lock(); below the threshold the
\* deferred Unlock runs at once, otherwise the active memtable is appended
\* to flushingMemtables and replaced, and the writer stands at
\* l.flushQueue <- old with l.mu held.
CheckFlush(w) ==
    /\ wpc[w] = "checkFlush"
    /\ lsmMu = "free"
    /\ IF MemtableSize(mtStore[Memtable]) >= MemtableSizeThreshold
       THEN /\ flushingMemtables' = Append(flushingMemtables, Memtable)
            /\ mtStore' = Append(mtStore, NewMemtable)
            /\ Memtable' = Len(mtStore) + 1
            /\ lsmMu' = w
            /\ wpc' = [wpc EXCEPT ![w] = "send"]
       ELSE /\ wpc' = [wpc EXCEPT ![w] = "idle"]
            /\ UNCHANGED <<Memtable, mtStore, flushingMemtables, lsmMu>>
    /\ UNCHANGED <<fpc, fmt>>
    /\ UNCHANGED <<regVars, disk, compVars, lastWrite, hist>>
    /\ UNCHANGED auxVars

\* The unbuffered flushQueue hands the frozen memtable from the writer
\* blocked in checkFlush to the flusher's range loop; the writer's deferred
\* Unlock follows.
FlusherReceive(w) ==
    /\ wpc[w] = "send"
    /\ fpc = "recv"
    /\ fmt' = flushingMemtables[Len(flushingMemtables)]
    /\ fpc' = "flush"
    /\ wpc' = [wpc EXCEPT ![w] = "idle"]
    /\ lsmMu' = "free"
    /\ UNCHANGED <<Memtable, mtStore, flushingMemtables>>
    /\ UNCHANGED <<regVars, disk, compVars, lastWrite, hist>>
    /\ UNCHANGED auxVars

\* SSTManager.FlushSST(mt), succeeding: NewSST(0, SST_FLUSHING) makes a
\* descriptor with a uuid file name (it is not put into levels); the file
\* gets one key:value line per entry and the trailer.
FlushSSTOk ==
    /\ fpc = "flush"
    /\ \E n \in FreshNames :
          /\ disk' = disk \cup {[name |-> n, format |-> "text", level |-> 0, id |-> 0,
                                 lines |-> FlushLines(mtStore[fmt]), done |-> TRUE]}
          /\ hist' = [hist EXCEPT !.flushed = <<[name |-> n, mt |-> fmt]>>,
                                   !.order = Append(@, n)]
    /\ fpc' = "remove"
    /\ UNCHANGED <<Memtable, mtStore, flushingMemtables, lsmMu, wpc, fmt>>
    /\ UNCHANGED <<regVars, compVars, lastWrite>>
    /\ UNCHANGED auxVars

\* SSTManager.FlushSST(mt), failing: os.OpenFile fails (no file), or
\* f.Write fails (a file without the done marker).  StartFlusher logs the
\* error and goes on.
FlushSSTErr ==
    /\ fpc = "flush"
    /\ \/ disk' = disk
       \/ \E n \in FreshNames :
             disk' = disk \cup {[name |-> n, format |-> "text", level |-> 0, id |-> 0,
                                 lines |-> <<>>, done |-> FALSE]}
    /\ fpc' = "remove"
    /\ UNCHANGED <<Memtable, mtStore, flushingMemtables, lsmMu, wpc, fmt>>
    /\ UNCHANGED <<regVars, compVars, lastWrite, hist>>
    /\ UNCHANGED auxVars

\* flushingMemtables without its last occurrence of mt
RemoveMemtable(list, mt) ==
    IF \E i \in DOMAIN list : list[i] = mt
    THEN LET i == Max({j \in DOMAIN list : list[j] = mt})
         IN  SubSeq(list, 1, i - 1) \o SubSeq(list, i + 1, Len(list))
    ELSE list

\* StartFlusher after FlushSST returned (with or without error): under
\* l.mu the memtable is removed from flushingMemtables.
FlusherRemove ==
    /\ fpc = "remove"
    /\ lsmMu = "free"
    /\ flushingMemtables' = RemoveMemtable(flushingMemtables, fmt)
    /\ fpc' = "recv"
    /\ UNCHANGED <<Memtable, mtStore, lsmMu, wpc, fmt>>
    /\ UNCHANGED <<regVars, disk, compVars, lastWrite, hist>>
    /\ UNCHANGED auxVars

\* ---------------------------------------------------------------- registry

\* ListSST without the test of the state: the first count SSTs of the level
ListSSTAnyState(level, states, count) ==
    LET ssts == levels[level]
        n == IF Len(ssts) < count THEN Len(ssts) ELSE count
    IN  SubSeq(ssts, 1, n)

\* SSTManager.ListSST(level, states, count): the first count SSTs of the
\* level whose Status is one of states, in the order of the slice.  The
\* loop returns when len(res) == count, tested after each append: with a
\* count below one the test never holds and every such SST is returned.
ListSST(level, states, count) ==
    LET ssts == levels[level]
        idx == SortedSeq({i \in DOMAIN ssts : ssts[i].Status \in states})
        n == IF count < 1 \/ Len(idx) < count THEN Len(idx) ELSE count
    IN  [j \in 1..n |-> ssts[idx[j]]]

\* SSTManager.updateBatch(level, ssts, state), the loop over the level:
\* every SST of the level whose FileName is one of the batch's gets state.
\* No condition on the state it had.
UpdateBatch(level, ssts, state) ==
    LET queries == {ssts[i].FileName : i \in DOMAIN ssts}
    IN  [levels EXCEPT ![level] =
            [i \in DOMAIN @ |->
                IF @[i].FileName \in queries
                THEN [@[i] EXCEPT !.Status = state]
                ELSE @[i]]]

\* SSTManager.GetLevels as the compactor manager ranges over it: the levels
\* the registry tracks
GetLevels == DOMAIN levels

\* SSTManager.NewSST(level, state) as compact calls it: a fresh id from the
\* level's counter, a descriptor appended to the level (created if absent)
NewSSTCounter(level) ==
    [l \in (DOMAIN counter) \cup {level} |->
        IF l = level
        THEN (IF l \in DOMAIN counter THEN counter[l] ELSE 0) + 1
        ELSE counter[l]]

NewSSTLevels(level, state, name) ==
    LET sst == [ID |-> NewSSTCounter(level)[level], FileName |-> name,
                Level |-> level, Status |-> state]
    IN  [l \in (DOMAIN levels) \cup {level} |->
            IF l = level
            THEN (IF l \in DOMAIN levels THEN Append(levels[l], sst) ELSE <<sst>>)
            ELSE levels[l]]

\* ------------------------------------------------------------ record codec

\* binary.Write(w, binary.LittleEndian, uint32(n)) and
\* binary.LittleEndian.Uint32(b)
LE32(n) == <<n % 256, (n \div 256) % 256, (n \div 65536) % 256, (n \div 16777216) % 256>>

FromLE32(b) == b[1] + 256 * b[2] + 65536 * b[3] + 16777216 * b[4]

\* encodeSSTEntry(w, key, value, isDeleted): the bytes written to w.  key
\* and value are byte sequences.
EncodeSSTEntry(key, value, isDeleted) ==
    LE32(4 + 4 + 4 + 1 + Len(key) + Len(value)) \o LE32(Len(key)) \o key
    \o LE32(Len(value)) \o value \o <<IF isDeleted THEN 1 ELSE 0>> \o <<10>>

\* parseSSTLine(line).  The slices line[8 : 8+keyLength] and those after it
\* are taken without a test of the lengths: a slice that ends beyond the
\* line is a run-time panic when it also ends beyond the capacity of the
\* slice, and bytes from outside the line otherwise.
ParseSSTLine(line) ==
    IF Len(line) = 0 THEN [err |-> "sst eof reached"]
    ELSE IF Len(line) < 13 THEN [err |-> "line too short"]
    ELSE IF Len(line) # FromLE32(SubSeq(line, 1, 4)) THEN [err |-> "data length is incorrect"]
    ELSE LET keyLength == FromLE32(SubSeq(line, 5, 8))
         IN  IF 12 + keyLength > Len(line) THEN [err |-> "slice out of range"]
             ELSE LET valLength == FromLE32(SubSeq(line, 9 + keyLength, 12 + keyLength))
                  IN  IF 12 + keyLength + valLength > Len(line) THEN [err |-> "slice out of range"]
                      ELSE [err |-> "",
                            Key |-> SubSeq(line, 9, 8 + keyLength),
                            Value |-> SubSeq(line, 13 + keyLength,
                                             12 + keyLength + valLength),
                            IsDeleted |-> (line[Len(line)] = 1)]

\* bufio.Scanner with ScanLines, first Scan: the bytes in front of the first
\* newline, without a trailing carriage return (FindKey and compact hand
\* scanner.Bytes() to parseSSTLine).
ScanLine(bytes) ==
    LET nl == {i \in DOMAIN bytes : bytes[i] = 10}
        line == IF nl = {} THEN bytes ELSE SubSeq(bytes, 1, Min(nl) - 1)
    IN  IF line # <<>> /\ line[Len(line)] = 13
        THEN SubSeq(line, 1, Len(line) - 1)
        ELSE line

\* --------------------------------------------------------- container/heap

\* kvHeap.Less(i, j): h[i].key < h[j].key (0-based positions)
Less(h, i, j) == h[i + 1].key < h[j + 1].key

\* kvHeap.Swap(i, j)
Swap(h, i, j) == [h EXCEPT ![i + 1] = h[j + 1], ![j + 1] = h[i + 1]]

\* heap.up(h, j)
RECURSIVE HeapUp(_, _)
HeapUp(h, j) ==
    LET i == IF j = 0 THEN 0 ELSE (j - 1) \div 2
    IN  IF i = j \/ ~Less(h, j, i) THEN h ELSE HeapUp(Swap(h, i, j), i)

\* heap.down(h, i0, n)
RECURSIVE HeapDown(_, _, _)
HeapDown(h, i, n) ==
    LET j1 == 2 * i + 1
        j2 == j1 + 1
        j == IF j2 < n /\ Less(h, j2, j1) THEN j2 ELSE j1
    IN  IF j1 >= n THEN h
        ELSE IF ~Less(h, j, i) THEN h
        ELSE HeapDown(Swap(h, i, j), j, n)

\* heap.Push(h, x): kvHeap.Push appends, then up(Len-1)
HeapPush(h, x) == HeapUp(Append(h, x), Len(h))

\* heap.Pop(h): Swap(0, n), down(0, n), then kvHeap.Pop takes the last one.
\* The heap after the pop, and the entry popped.
HeapPopped(h) == HeapDown(Swap(h, 0, Len(h) - 1), 0, Len(h) - 1)

HeapPopRest(h) == SubSeq(HeapPopped(h), 1, Len(h) - 1)

HeapPopEntry(h) == HeapPopped(h)[Len(h)]

\* -------------------------------------------------------------- compaction

\* The kvEntry compact pushes for a parsed line: key, value and fileID are
\* set; isDeleted keeps its zero value.
KvEntry(line, idx) ==
    [key |-> line.Key, value |-> line.Value, isDeleted |-> FALSE, fileID |-> idx]

\* compact, before NewSST: every input opens, and the first line of each
\* parses with parseSSTLine (a key:value line is "line too short" or "data
\* length is incorrect"; the empty line of a file without records is
\* ErrSSTEntryEOF, which is returned as well).
CompactReadable(ssts) ==
    \A i \in DOMAIN ssts :
        LET f == FileOf(ssts[i].FileName)
        IN  f # NoFile /\ f.format = "binary" /\ Len(f.lines) >= 1

\* compact, the first loop: the first entry of every scanner, pushed in
\* the order of the batch
RECURSIVE InitHeap(_, _, _)
InitHeap(inputs, idx, h) ==
    IF idx > Len(inputs) THEN h
    ELSE InitHeap(inputs, idx + 1, HeapPush(h, KvEntry(inputs[idx][1], idx)))

\* compact, the merge loop: pop; write the entry unless its key is lastKey;
\* advance the scanner the entry came from and push its next entry (the
\* empty line before the trailer is ErrSSTEntryEOF: nothing is pushed).
\* pos[i] is the number of lines scanner i has delivered.
RECURSIVE MergeLoop(_, _, _, _, _)
MergeLoop(inputs, h, pos, lastKey, out) ==
    IF h = <<>> THEN out
    ELSE LET entry == HeapPopEntry(h)
             rest == HeapPopRest(h)
             fresh == entry.key # lastKey
             out2 == IF fresh
                     THEN Append(out, [Key |-> entry.key, Value |-> entry.value,
                                       IsDeleted |-> entry.isDeleted])
                     ELSE out
             last2 == IF fresh THEN entry.key ELSE lastKey
             f == entry.fileID
             more == pos[f] < Len(inputs[f])
             h2 == IF more
                   THEN HeapPush(rest, KvEntry(inputs[f][pos[f] + 1], f))
                   ELSE rest
             pos2 == IF more THEN [pos EXCEPT ![f] = @ + 1] ELSE pos
         IN  MergeLoop(inputs, h2, pos2, last2, out2)

\* The record lines compact writes for the inputs' lines; lastKey starts as
\* the empty string, which is no key of the model (0).
CompactLines(inputs) ==
    MergeLoop(inputs, InitHeap(inputs, 1, <<>>), [i \in DOMAIN inputs |-> 1], 0, <<>>)

InputLines(ssts) == [i \in DOMAIN ssts |-> FileOf(ssts[i].FileName).lines]

\* comp: the last compaction that wrote its output; upd: the last
\* updateBatch; flushed: the file and the memtable of the last FlushSST that
\* returned nil;
\* restarts: how often the process was started again; active: the active
\* memtable the last stop of the process discarded.
\* cleaned: the registry before and after the last pass of the cleaner and
\* the files it left.
\* handed: the file names of the SSTs compact has been called with; reused:
\* whether compact has been called with an SST it had been called with
\* before.  merged: the file names of the inputs of the compactions that
\* ended with updateBatch; remerged: whether compact has been called with
\* one of them.  order: the files of the FlushSST calls that returned nil,
\* in the order of the calls.
NoHist == [comp |-> <<>>, upd |-> <<>>, flushed |-> <<>>, restarts |-> 0,
           active |-> <<>>, cleaned |-> <<>>, handed |-> {}, reused |-> FALSE,
           merged |-> {}, remerged |-> FALSE, order |-> <<>>]

\* startCompactor, one tick, with a batch of any size taken for a full one
CompactTickAnyCount(l) ==
    /\ cpc[l] = "tick"
    /\ <<"compactor", l>> \notin ctx.exited
    /\ mgrMu = {}
    /\ LET ssts == ListSST(l, {SST_FLUSHED}, MAX_SST_PER_LEVEL)
           names == {ssts[i].FileName : i \in DOMAIN ssts}
       IN  IF Len(ssts) < 1
           THEN UNCHANGED <<levels, counter, cpc, cjob, hist>>
           ELSE /\ hist' = [hist EXCEPT !.handed = @ \cup names,
                                        !.reused = @ \/ (names \cap hist.handed # {}),
                                        !.remerged = @ \/ (names \cap hist.merged # {})]
                /\ IF ~CompactReadable(ssts)
                   THEN UNCHANGED <<levels, counter, cpc, cjob>>
                   ELSE \E n \in FreshNames :
                          /\ levels' = NewSSTLevels(l + 1, SST_COMPACTING, n)
                          /\ counter' = NewSSTCounter(l + 1)
                          /\ cpc' = [cpc EXCEPT ![l] = "write"]
                          /\ cjob' = [cjob EXCEPT ![l] =
                                        <<[ssts |-> ssts, out |-> n,
                                           outID |-> NewSSTCounter(l + 1)[l + 1],
                                           inputs |-> InputLines(ssts)]>>]
    /\ UNCHANGED <<lsmVars, mgrMu, levelMu, disk, lastWrite, compactors>>
    /\ UNCHANGED auxVars

\* startCompactor, one tick up to the creation of the output file:
\* ListSST(c.Level, {SST_FLUSHED}, MAX_SST_PER_LEVEL); fewer than
\* MAX_SST_PER_LEVEL ends the tick; compact opens and starts to read the
\* inputs (an error ends the tick) and takes the output SST from the
\* registry: NewSST(c.Level+1, SST_COMPACTING).
CompactTick(l) ==
    /\ cpc[l] = "tick"
    /\ <<"compactor", l>> \notin ctx.exited
    /\ mgrMu = {}
    /\ LET ssts == ListSST(l, {SST_FLUSHED}, MAX_SST_PER_LEVEL)
           names == {ssts[i].FileName : i \in DOMAIN ssts}
       IN  IF Len(ssts) < MAX_SST_PER_LEVEL
           THEN UNCHANGED <<levels, counter, cpc, cjob, hist>>
           ELSE /\ hist' = [hist EXCEPT !.handed = @ \cup names,
                                        !.reused = @ \/ (names \cap hist.handed # {}),
                                        !.remerged = @ \/ (names \cap hist.merged # {})]
                /\ IF ~CompactReadable(ssts)
                   THEN UNCHANGED <<levels, counter, cpc, cjob>>
                   ELSE \E n \in FreshNames :
                          /\ levels' = NewSSTLevels(l + 1, SST_COMPACTING, n)
                          /\ counter' = NewSSTCounter(l + 1)
                          /\ cpc' = [cpc EXCEPT ![l] = "write"]
                          /\ cjob' = [cjob EXCEPT ![l] =
                                        <<[ssts |-> ssts, out |-> n,
                                           outID |-> NewSSTCounter(l + 1)[l + 1],
                                           inputs |-> InputLines(ssts)]>>]
    /\ UNCHANGED <<lsmVars, mgrMu, levelMu, disk, lastWrite, compactors>>
    /\ UNCHANGED auxVars

\* compact from os.Create to its return nil: the merged records and the
\* trailer are written, flushed and the file closed.
CompactWriteOk(l) ==
    /\ cpc[l] = "write"
    /\ LET job == cjob[l][1]
           out == CompactLines(job.inputs)
       IN  /\ disk' = disk \cup {[name |-> job.out, format |-> "binary",
                                  level |-> l + 1, id |-> job.outID,
                                  lines |-> out, done |-> TRUE]}
           /\ hist' = [hist EXCEPT !.comp =
                         <<[level |-> l, inputs |-> job.inputs, out |-> out,
                            tracked |-> DOMAIN levels]>>]
    /\ cpc' = [cpc EXCEPT ![l] = "update"]
    /\ UNCHANGED compactors
    /\ UNCHANGED <<lsmVars, regVars, cjob, lastWrite>>
    /\ UNCHANGED auxVars

\* compact returning an error after NewSST: os.Create fails (no file), or a
\* write fails (a file without trailer).  The tick ends; the registry
\* keeps the output descriptor.
CompactWriteErr(l) ==
    /\ cpc[l] = "write"
    /\ \/ disk' = disk
       \/ disk' = disk \cup {[name |-> cjob[l][1].out, format |-> "binary",
                              level |-> l + 1, id |-> cjob[l][1].outID,
                              lines |-> <<>>, done |-> FALSE]}
    /\ cpc' = [cpc EXCEPT ![l] = "tick"]
    /\ cjob' = [cjob EXCEPT ![l] = <<>>]
    /\ UNCHANGED compactors
    /\ UNCHANGED <<lsmVars, regVars, lastWrite, hist>>
    /\ UNCHANGED auxVars

\* updateBatch(c.Level, ssts, SST_COMPACTED), entry: m.mu.Lock()
UpdateBatchLock(l) ==
    /\ cpc[l] = "update"
    /\ mgrMu = {}
    /\ mgrMu' = {l}
    /\ cpc' = [cpc EXCEPT ![l] = "updating"]
    /\ UNCHANGED compactors
    /\ UNCHANGED <<lsmVars, levels, counter, levelMu, disk, cjob, lastWrite, hist>>
    /\ UNCHANGED auxVars

\* updateBatch, the rest: m.levels[level].mu.Lock(), the loop, return nil.
\* The deferred m.mu.Unlock() runs; the level's mu is not unlocked.
UpdateBatchApply(l) ==
    /\ cpc[l] = "updating"
    /\ l \notin levelMu
    /\ LET job == cjob[l][1]
       IN  /\ levels' = UpdateBatch(l, job.ssts, SST_COMPACTED)
           /\ hist' = [hist EXCEPT !.merged = @ \cup {job.ssts[i].FileName : i \in DOMAIN job.ssts},
                                    !.upd =
                         <<[level |-> l,
                            names |-> {job.ssts[i].FileName : i \in DOMAIN job.ssts},
                            out |-> job.out, state |-> SST_COMPACTED,
                            before |-> levels[l],
                            after |-> UpdateBatch(l, job.ssts, SST_COMPACTED)[l]]>>]
    /\ levelMu' = levelMu \cup {l}
    /\ mgrMu' = {}
    /\ cpc' = [cpc EXCEPT ![l] = "tick"]
    /\ cjob' = [cjob EXCEPT ![l] = <<>>]
    /\ UNCHANGED compactors
    /\ UNCHANGED <<lsmVars, counter, disk, lastWrite>>
    /\ UNCHANGED auxVars

\* CompactorManager.GetLevels: the levels of the compactors started so far
ExistingLevels == Range(compactors)

\* startLevelChecker, one tick, without the test of existingLevels: a
\* compactor is started for every level of GetLevels.
LevelCheckerNoTest ==
    /\ <<"levelChecker", 0>> \notin ctx.exited
    /\ mgrMu = {}
    /\ cpc' = [l \in (DOMAIN cpc) \cup GetLevels |->
                 IF l \in DOMAIN cpc THEN cpc[l] ELSE "tick"]
    /\ cjob' = [l \in (DOMAIN cjob) \cup GetLevels |->
                 IF l \in DOMAIN cjob THEN cjob[l] ELSE <<>>]
    /\ compactors' = compactors \o SortedSeq(GetLevels)
    /\ Len(compactors) <= MaxLevel + 2
    /\ UNCHANGED <<lsmVars, regVars, disk, lastWrite, hist>>
    /\ UNCHANGED auxVars

\* startLevelChecker, one tick: a compactor is started for every level of
\* GetLevels that has none.
LevelChecker ==
    /\ <<"levelChecker", 0>> \notin ctx.exited
    /\ mgrMu = {}
    /\ cpc' = [l \in (DOMAIN cpc) \cup GetLevels |->
                 IF l \in DOMAIN cpc THEN cpc[l] ELSE "tick"]
    /\ cjob' = [l \in (DOMAIN cjob) \cup GetLevels |->
                 IF l \in DOMAIN cjob THEN cjob[l] ELSE <<>>]
    /\ compactors' = compactors \o SortedSeq(GetLevels \ ExistingLevels)
    /\ UNCHANGED <<lsmVars, regVars, disk, lastWrite, hist>>
    /\ UNCHANGED auxVars

\* StartCleaner, one pass: in every level a full batch of MAX_SST_PER_LEVEL
\* SSTs in state SST_COMPACTED is removed from the level and its files are
\* unlinked.
CleanBatch(l) ==
    LET b == ListSST(l, {SST_COMPACTED}, MAX_SST_PER_LEVEL)
    IN  IF Len(b) < MAX_SST_PER_LEVEL THEN {}
        ELSE {b[i].FileName : i \in DOMAIN b}

RemoveSSTs(l, names) ==
    LET ssts == levels[l]
        idx == SortedSeq({i \in DOMAIN ssts : ssts[i].FileName \notin names})
    IN  [j \in 1..Len(idx) |-> ssts[idx[j]]]

Cleaner ==
    /\ <<"cleaner", 0>> \notin ctx.exited
    /\ mgrMu = {}
    /\ levels' = [l \in DOMAIN levels |-> RemoveSSTs(l, CleanBatch(l))]
    /\ disk' = {f \in disk : \A l \in DOMAIN levels : f.name \notin CleanBatch(l)}
    /\ hist' = [hist EXCEPT !.cleaned =
                  <<[before |-> levels,
                     after |-> [l \in DOMAIN levels |-> RemoveSSTs(l, CleanBatch(l))],
                     hadFile |-> {f.name : f \in disk},
                     files |-> {f.name : f \in disk} \
                               UNION {CleanBatch(l) : l \in DOMAIN levels}]>>]
    /\ UNCHANGED <<lsmVars, counter, mgrMu, levelMu, compVars, lastWrite>>
    /\ UNCHANGED auxVars

\* ----------------------------------------------------------- specifications

\* No Set is in progress, context.Background() is not cancelled and every
\* worker runs.
NoCtx == [done |-> FALSE, exited |-> {}]

\* No function is applied on its own.
NoCall == [stage |-> "none"]

InitAux ==
    /\ wreq = [w \in Threads |-> <<>>]
    /\ ctx = NoCtx

\* The state after NewSSTManager, StartCompactors and NewLSM on a data
\* directory holding files.
Startup(files) ==
    /\ disk = files
    /\ levels = NewSSTManager(files)
    /\ counter = [l \in {} |-> 0]
    /\ mgrMu = {}
    /\ levelMu = {}
    /\ Memtable = 1
    /\ mtStore = <<NewMemtable>>
    /\ flushingMemtables = <<>>
    /\ lsmMu = "free"
    /\ wpc = [w \in Threads |-> "idle"]
    /\ fpc = "recv"
    /\ fmt = 0
    /\ cpc = [l \in DOMAIN NewSSTManager(files) |-> "tick"]
    /\ cjob = [l \in DOMAIN NewSSTManager(files) |-> <<>>]
    /\ compactors = SortedSeq(DOMAIN NewSSTManager(files))
    /\ lastWrite = [k \in Keys |-> [op |-> "none", Value |-> ""]]
    /\ hist = NoHist
    /\ InitAux

\* A file as FlushSST leaves it.
TextFile(n, lines) ==
    [name |-> n, format |-> "text", level |-> 0, id |-> 0, lines |-> lines, done |-> TRUE]

\* A file as compact leaves it: an output of level 1 with an id of its own.
BinaryFile(n, lines) ==
    [name |-> n, format |-> "binary", level |-> 1, id |-> n, lines |-> lines, done |-> TRUE]

Line(k, v, d) == [Key |-> k, Value |-> v, IsDeleted |-> d]

\* Engine: the writer and the flusher, started on a directory left by
\* earlier flushes.
InitDisksLSM ==
    {{},
     {TextFile(1, <<Line(1, "x", FALSE)>>)},
     {TextFile(1, <<Line(1, "x", FALSE)>>), TextFile(2, <<Line(2, "", FALSE)>>)},
     {TextFile(1, <<Line(1, "x", FALSE)>>), TextFile(2, <<Line(1, "y", FALSE)>>)}}

\* The process stops (at any point, losing its memory) and main runs again
\* on the directory as it is.
Restart ==
    /\ hist.restarts < MaxRestarts
    /\ levels' = NewSSTManager(disk)
    /\ counter' = [l \in {} |-> 0]
    /\ mgrMu' = {}
    /\ levelMu' = {}
    /\ Memtable' = 1
    /\ mtStore' = <<NewMemtable>>
    /\ flushingMemtables' = <<>>
    /\ lsmMu' = "free"
    /\ wpc' = [w \in Threads |-> "idle"]
    /\ fpc' = "recv"
    /\ fmt' = 0
    /\ cpc' = [l \in DOMAIN NewSSTManager(disk) |-> "tick"]
    /\ cjob' = [l \in DOMAIN NewSSTManager(disk) |-> <<>>]
    /\ compactors' = SortedSeq(DOMAIN NewSSTManager(disk))
    /\ wreq' = [w \in Threads |-> <<>>]
    /\ ctx' = NoCtx
    /\ hist' = [hist EXCEPT !.restarts = @ + 1, !.active = mtStore[Memtable]]
    /\ UNCHANGED <<disk, lastWrite, pure>>

InitLSM == \E files \in InitDisksLSM : Startup(files) /\ pure = NoCall

NextLSM ==
    \/ \E w \in Writers, k \in Keys : \E v \in ValuesOf(k) : Set(w, k, v)
    \/ \E w \in Writers, k \in DeleteKeys : Delete(w, k)
    \/ \E w \in Writers : CheckFlush(w)
    \/ \E w \in Writers : FlusherReceive(w)
    \/ FlushSSTOk
    \/ FlushSSTErr
    \/ FlusherRemove

SpecLSM == InitLSM /\ [][NextLSM]_vars

\* Engine with two threads that write.  LSM.Set and LSM.Delete take no lock:
\* the thread reads the field l.Memtable, then calls Memtable.Set on the
\* memtable it read, then checkFlush; another thread can run between the
\* read and the call.
SetLoad(w, key, value) ==
    /\ wpc[w] = "idle"
    /\ Len(mtStore) <= RaceFrozen
    /\ wreq' = [wreq EXCEPT ![w] = <<[mt |-> Memtable, op |-> "set", Key |-> key, Value |-> value]>>]
    /\ wpc' = [wpc EXCEPT ![w] = "store"]
    /\ UNCHANGED <<Memtable, mtStore, flushingMemtables, lsmMu, fpc, fmt>>
    /\ UNCHANGED <<regVars, disk, compVars, lastWrite, hist, ctx, pure>>

DeleteLoad(w, key) ==
    /\ wpc[w] = "idle"
    /\ Len(mtStore) <= RaceFrozen
    /\ wreq' = [wreq EXCEPT ![w] = <<[mt |-> Memtable, op |-> "delete", Key |-> key, Value |-> ""]>>]
    /\ wpc' = [wpc EXCEPT ![w] = "store"]
    /\ UNCHANGED <<Memtable, mtStore, flushingMemtables, lsmMu, fpc, fmt>>
    /\ UNCHANGED <<regVars, disk, compVars, lastWrite, hist, ctx, pure>>

\* Memtable.Set on the memtable the thread read
MemtableStore(w) ==
    /\ wpc[w] = "store"
    /\ LET r == wreq[w][1]
       IN  /\ mtStore' = [mtStore EXCEPT ![r.mt] = MemtableSet(@, r.Key, r.Value, FALSE)]
           /\ lastWrite' = [lastWrite EXCEPT ![r.Key] = [op |-> r.op, Value |-> r.Value]]
    /\ wreq' = [wreq EXCEPT ![w] = <<>>]
    /\ wpc' = [wpc EXCEPT ![w] = "checkFlush"]
    /\ UNCHANGED <<Memtable, flushingMemtables, lsmMu, fpc, fmt>>
    /\ UNCHANGED <<regVars, disk, compVars, hist, ctx, pure>>

InitRace == Startup({}) /\ pure = NoCall

NextRace ==
    \/ \E w \in Threads, k \in Keys : \E v \in ValuesOf(k) : SetLoad(w, k, v)
    \/ \E w \in Threads, k \in DeleteKeys : DeleteLoad(w, k)
    \/ \E w \in Threads : MemtableStore(w)
    \/ \E w \in Threads : CheckFlush(w)
    \/ \E w \in Threads : FlusherReceive(w)
    \/ FlushSSTOk
    \/ FlushSSTErr
    \/ FlusherRemove

SpecRace == InitRace /\ [][NextRace]_vars

\* Workers under a context that can be cancelled.  A compactor, the level
\* checker and the cleaner wait in select { case <-ctx.Done(): return;
\* case <-ticker.C: ... }: once the context is cancelled the return is
\* possible, and so is the tick while one is pending.  StartFlusher takes
\* no context and ranges over flushQueue, which is never closed: it has no
\* return.
Cancel ==
    /\ ~ctx.done
    /\ ctx' = [ctx EXCEPT !.done = TRUE]
    /\ UNCHANGED <<lsmVars, regVars, disk, compVars, lastWrite, hist, wreq, pure>>

CompactorExit(l) ==
    /\ ctx.done
    /\ cpc[l] = "tick"
    /\ <<"compactor", l>> \notin ctx.exited
    /\ ctx' = [ctx EXCEPT !.exited = @ \cup {<<"compactor", l>>}]
    /\ UNCHANGED <<lsmVars, regVars, disk, compVars, lastWrite, hist, wreq, pure>>

LevelCheckerExit ==
    /\ ctx.done
    /\ <<"levelChecker", 0>> \notin ctx.exited
    /\ ctx' = [ctx EXCEPT !.exited = @ \cup {<<"levelChecker", 0>>}]
    /\ UNCHANGED <<lsmVars, regVars, disk, compVars, lastWrite, hist, wreq, pure>>

CleanerExit ==
    /\ ctx.done
    /\ <<"cleaner", 0>> \notin ctx.exited
    /\ ctx' = [ctx EXCEPT !.exited = @ \cup {<<"cleaner", 0>>}]
    /\ UNCHANGED <<lsmVars, regVars, disk, compVars, lastWrite, hist, wreq, pure>>

\* The directory holds MAX_SST_PER_LEVEL files, so that level 0 has a
\* compactor with a batch to merge; the client sets keys to "x".
InitCancel ==
    Startup({BinaryFile(n, <<Line(1, "x", FALSE)>>) : n \in 1..MAX_SST_PER_LEVEL})
    /\ pure = NoCall

NextCancel ==
    \/ Cancel
    \/ \E l \in DOMAIN cpc : CompactorExit(l)
    \/ LevelCheckerExit
    \/ CleanerExit
    \/ \E k \in Keys : Len(mtStore) <= CancelFrozen /\ Set("w1", k, "x")
    \/ CheckFlush("w1")
    \/ FlusherReceive("w1")
    \/ FlushSSTOk
    \/ FlusherRemove
    \/ \E l \in DOMAIN cpc : CompactTick(l)
    \/ \E l \in DOMAIN cpc : CompactWriteOk(l)
    \/ \E l \in DOMAIN cpc : UpdateBatchLock(l)
    \/ \E l \in DOMAIN cpc : UpdateBatchApply(l)
    \/ LevelChecker
    \/ Cleaner

\* A goroutine that can take a step takes it: a worker waiting in select
\* with the context cancelled returns, a unit of work in progress goes on.
FairCancel ==
    /\ \A l \in 0..(MaxLevel + 1) : WF_vars(l \in DOMAIN cpc /\ CompactorExit(l))
    /\ WF_vars(LevelCheckerExit)
    /\ WF_vars(CleanerExit)
    /\ \A l \in 0..(MaxLevel + 1) :
          /\ []<>(l \notin DOMAIN cpc \/ cpc[l] # "write")
          /\ WF_vars(l \in DOMAIN cpc /\ UpdateBatchLock(l))
          /\ WF_vars(l \in DOMAIN cpc /\ UpdateBatchApply(l))
    /\ WF_vars(FlushSSTOk \/ FlusherRemove)

SpecCancel == InitCancel /\ [][NextCancel]_vars /\ FairCancel

\* Compactors on a directory that holds two full batches of readable level-0
\* SSTs, without I/O errors, every worker taking the steps it can take.
InitProgress ==
    Startup({BinaryFile(MaxFiles + n, <<Line(1, "x", FALSE)>>) : n \in 1..(2 * MAX_SST_PER_LEVEL)})
    /\ pure = NoCall

NextProgress ==
    \/ \E l \in DOMAIN cpc : CompactTick(l)
    \/ \E l \in DOMAIN cpc : CompactWriteOk(l)
    \/ \E l \in DOMAIN cpc : UpdateBatchLock(l)
    \/ \E l \in DOMAIN cpc : UpdateBatchApply(l)
    \/ LevelChecker
    \/ Cleaner

\* The compactor of a level does not wait for ever at a tick that finds a
\* full batch with m.mu free, nor in compact; updateBatch and the level
\* checker take the steps they can take.
FairProgress ==
    \A l \in 0..(MaxLevel + 1) :
        /\ []<>(\/ l \notin DOMAIN cpc
                \/ cpc[l] # "tick"
                \/ mgrMu # {}
                \/ Len(ListSST(l, {SST_FLUSHED}, MAX_SST_PER_LEVEL)) < MAX_SST_PER_LEVEL)
        /\ []<>(l \notin DOMAIN cpc \/ cpc[l] # "write")
        /\ WF_vars(l \in DOMAIN cpc /\ UpdateBatchLock(l))
        /\ WF_vars(l \in DOMAIN cpc /\ UpdateBatchApply(l))
        /\ WF_vars(LevelChecker)

SpecProgress == InitProgress /\ [][NextProgress]_vars /\ FairProgress

\* Engine with a stop and a new start of the process; the run ends with
\* the state the new process starts in.
NextRecover ==
    \/ hist.restarts = 0 /\ NextLSM
    \/ Restart

SpecRecover == InitLSM /\ [][NextRecover]_vars

\* Registry: the compactors, the level checker and the cleaner, started on
\* a directory of NumInitFiles files named 1..NumInitFiles.  The value of
\* every record of file n is FileValue[n], so that a record tells the file
\* it was written to first.
FileValue == <<"v1", "v2", "v3", "v4", "v5", "v6", "v7", "v8">>

FileChoices(n) ==
    {BinaryFile(n, <<Line(1, FileValue[n], FALSE)>>),
     BinaryFile(n, <<Line(1, "", TRUE)>>),
     BinaryFile(n, <<Line(1, FileValue[n], FALSE), Line(2, FileValue[n], FALSE)>>),
     TextFile(n, <<Line(1, FileValue[n], FALSE)>>)}

ExtraChoices(n) ==
    {BinaryFile(n, <<>>),
     [name |-> n, format |-> "text", level |-> 0, id |-> 0, lines |-> <<>>, done |-> FALSE]}

RECURSIVE InitDirs(_)
InitDirs(n) ==
    IF n = 0 THEN {{}}
    ELSE {d \cup {f} : d \in InitDirs(n - 1), f \in FileChoices(n)}

InitDisksReg ==
    InitDirs(MAX_SST_PER_LEVEL) \cup
    {d \cup {f} : d \in InitDirs(MAX_SST_PER_LEVEL),
                  f \in FileChoices(MAX_SST_PER_LEVEL + 1)
                        \cup ExtraChoices(MAX_SST_PER_LEVEL + 1)}

InitReg == \E files \in InitDisksReg : Startup(files) /\ pure = NoCall

NextReg ==
    \/ \E l \in DOMAIN cpc : CompactTick(l)
    \/ \E l \in DOMAIN cpc : CompactWriteOk(l)
    \/ \E l \in DOMAIN cpc : CompactWriteErr(l)
    \/ \E l \in DOMAIN cpc : UpdateBatchLock(l)
    \/ \E l \in DOMAIN cpc : UpdateBatchApply(l)
    \/ LevelChecker
    \/ Cleaner

SpecReg == InitReg /\ [][NextReg]_vars

\* Compaction of a registry with a deeper level: level 0 holds
\* MAX_SST_PER_LEVEL SSTs with the ids 1..MAX_SST_PER_LEVEL the registry
\* gave them and in state FLUSHED, and level 2 holds one SST with an older
\* record of key 1.
DeepFile == BinaryFile(MAX_SST_PER_LEVEL + 1, <<Line(1, FileValue[MAX_SST_PER_LEVEL + 1], FALSE)>>)

DeepLevels ==
    (0 :> [i \in 1..MAX_SST_PER_LEVEL |->
              [ID |-> i, Level |-> 0, FileName |-> i, Status |-> SST_FLUSHED]])
    @@ (2 :> <<[ID |-> 1, Level |-> 2, FileName |-> MAX_SST_PER_LEVEL + 1,
                Status |-> SST_FLUSHED]>>)

InitCompact ==
    \E files \in InitDirs(MAX_SST_PER_LEVEL) :
        /\ disk = files \cup {DeepFile}
        /\ levels = DeepLevels
        /\ counter = (0 :> MAX_SST_PER_LEVEL) @@ (2 :> 1)
        /\ mgrMu = {}
        /\ levelMu = {}
        /\ Memtable = 1
        /\ mtStore = <<NewMemtable>>
        /\ flushingMemtables = <<>>
        /\ lsmMu = "free"
        /\ wpc = [w \in Threads |-> "idle"]
        /\ fpc = "recv"
        /\ fmt = 0
        /\ cpc = [l \in DOMAIN DeepLevels |-> "tick"]
        /\ cjob = [l \in DOMAIN DeepLevels |-> <<>>]
        /\ compactors = SortedSeq(DOMAIN DeepLevels)
        /\ lastWrite = [k \in Keys |-> [op |-> "none", Value |-> ""]]
        /\ hist = NoHist
        /\ InitAux
        /\ pure = NoCall

SpecCompact == InitCompact /\ [][NextReg]_vars

\* Trailer: writeSSTMetadata(w, id, level, now) as compact calls it for its
\* output descriptor (after the records it wrote), and parseSSTMetadata on
\* the file, for descriptors of every level and id.
TrailerInputs == [level : 0..MaxLevel, id : 0..MaxId, records : 0..MaxRecords]

InitTrailer ==
    /\ Startup({})
    /\ \E in \in TrailerInputs : pure = [stage |-> "descriptor", in |-> in]

WriteSSTMetadata ==
    /\ pure.stage = "descriptor"
    /\ pure' = [stage |-> "file", in |-> pure.in,
                file |-> [name |-> 1, format |-> "binary",
                          level |-> pure.in.level, id |-> pure.in.id,
                          lines |-> [i \in 1..pure.in.records |-> Line(i, "x", FALSE)],
                          done |-> TRUE]]
    /\ UNCHANGED <<lsmVars, regVars, disk, compVars, lastWrite, hist, wreq, ctx>>

ParseTrailer ==
    /\ pure.stage = "file"
    /\ pure' = [stage |-> "parsed", in |-> pure.in, file |-> pure.file,
                res |-> ParseSSTMetadata(pure.file)]
    /\ UNCHANGED <<lsmVars, regVars, disk, compVars, lastWrite, hist, wreq, ctx>>

NextTrailer ==
    \/ WriteSSTMetadata
    \/ ParseTrailer

SpecTrailer == InitTrailer /\ [][NextTrailer]_vars

\* Cleaner: a pass over a registry whose level 0 holds any number of SSTs
\* (up to MaxFiles - 1), each FLUSHED or COMPACTED, with their files.
CleanLevels(st) ==
    0 :> [i \in DOMAIN st |-> [ID |-> i, Level |-> 0, FileName |-> i, Status |-> st[i]]]

InitClean ==
    \E n \in 0..(MaxFiles - 1) : \E st \in [1..n -> {SST_FLUSHED, SST_COMPACTED}] :
        /\ disk = {BinaryFile(i, <<Line(1, FileValue[i], FALSE)>>) : i \in 1..n}
        /\ levels = CleanLevels(st)
        /\ counter = (0 :> n)
        /\ mgrMu = {}
        /\ levelMu = {}
        /\ Memtable = 1
        /\ mtStore = <<NewMemtable>>
        /\ flushingMemtables = <<>>
        /\ lsmMu = "free"
        /\ wpc = [w \in Threads |-> "idle"]
        /\ fpc = "recv"
        /\ fmt = 0
        /\ cpc = (0 :> "tick")
        /\ cjob = (0 :> <<>>)
        /\ compactors = <<0>>
        /\ lastWrite = [k \in Keys |-> [op |-> "none", Value |-> ""]]
        /\ hist = NoHist
        /\ InitAux
        /\ pure = NoCall

SpecClean == InitClean /\ [][NextReg]_vars

\* Codec: encodeSSTEntry applied to a key, a value and a flag, and
\* parseSSTLine applied to the bytes it wrote (as TestEncodeAndParseSSTEntry
\* does with buf.Bytes()) or to the line a scanner cuts from them.
RECURSIVE ByteStrings(_, _)
ByteStrings(alphabet, n) ==
    IF n = 0 THEN {<<>>}
    ELSE ByteStrings(alphabet, n - 1) \cup
         {Append(b, c) : b \in {x \in ByteStrings(alphabet, n - 1) : Len(x) = n - 1},
                         c \in alphabet}

CodecKeys == ByteStrings({97, 98}, ShortLen) \cup {[i \in 1..LongLen |-> 97]}

CodecValues == ByteStrings({120}, ShortLen) \cup {[i \in 1..LongLen |-> 120]}

InitCodec ==
    /\ Startup({})
    /\ \E k \in CodecKeys, v \in CodecValues, d \in BOOLEAN :
          pure = [stage |-> "entry", Key |-> k, Value |-> v, IsDeleted |-> d]

CodecEncode ==
    /\ pure.stage = "entry"
    /\ pure' = [stage |-> "encoded", Key |-> pure.Key, Value |-> pure.Value,
                IsDeleted |-> pure.IsDeleted,
                bytes |-> EncodeSSTEntry(pure.Key, pure.Value, pure.IsDeleted)]
    /\ UNCHANGED <<lsmVars, regVars, disk, compVars, lastWrite, hist, wreq, ctx>>

CodecParse ==
    /\ pure.stage = "encoded"
    /\ pure' = [stage |-> "parsed", Key |-> pure.Key, Value |-> pure.Value,
                IsDeleted |-> pure.IsDeleted, bytes |-> pure.bytes,
                via |-> "bytes", res |-> ParseSSTLine(pure.bytes)]
    /\ UNCHANGED <<lsmVars, regVars, disk, compVars, lastWrite, hist, wreq, ctx>>

CodecScanParse ==
    /\ pure.stage = "encoded"
    /\ pure' = [stage |-> "parsed", Key |-> pure.Key, Value |-> pure.Value,
                IsDeleted |-> pure.IsDeleted, bytes |-> pure.bytes,
                via |-> "scanner", res |-> ParseSSTLine(ScanLine(pure.bytes))]
    /\ UNCHANGED <<lsmVars, regVars, disk, compVars, lastWrite, hist, wreq, ctx>>

NextCodec ==
    \/ CodecEncode
    \/ CodecParse
    \/ CodecScanParse

SpecCodec == InitCodec /\ [][NextCodec]_vars

\* parseSSTLine on lines that no encodeSSTEntry wrote: the empty line, the
\* prefixes of a record, and records (without the newline) in which the
\* key length or the value length has been replaced.
Record(key, value, isDeleted) ==
    LET b == EncodeSSTEntry(key, value, isDeleted) IN SubSeq(b, 1, Len(b) - 1)

WithLE32At(line, pos, n) ==
    [i \in DOMAIN line |-> IF i \in pos..(pos + 3) THEN LE32(n)[i - pos + 1] ELSE line[i]]

DeclaredLens == {0, 1, LongLen, 255}

DecodeInputs ==
    LET recs == {Record(k, v, d) : k \in CodecKeys, v \in CodecValues, d \in BOOLEAN}
    IN  recs
        \cup {SubSeq(r, 1, n) : r \in recs, n \in {0, 4, 12}}
        \cup {WithLE32At(r, 5, n) : r \in recs, n \in DeclaredLens}
        \cup {WithLE32At(r, 9 + FromLE32(SubSeq(r, 5, 8)), n) : r \in recs, n \in DeclaredLens}

InitDecode ==
    /\ Startup({})
    /\ \E line \in DecodeInputs : pure = [stage |-> "line", line |-> line]

DecodeParse ==
    /\ pure.stage = "line"
    /\ pure' = [stage |-> "decoded", line |-> pure.line, res |-> ParseSSTLine(pure.line)]
    /\ UNCHANGED <<lsmVars, regVars, disk, compVars, lastWrite, hist, wreq, ctx>>

SpecDecode == InitDecode /\ [][DecodeParse]_vars

\* An SST file as bytes: the records encodeSSTEntry wrote, in key order,
\* and the first bytes writeSSTMetadata adds ("\n<metadata>\n"); FindKey and
\* compact read it through a bufio.Scanner, whose default split function
\* is ScanLines.
MaxEntries == 2

BytesLess(a, b) ==
    \/ Len(a) < Len(b) /\ SubSeq(b, 1, Len(a)) = a
    \/ \E i \in 1..Len(a) :
          /\ i <= Len(b)
          /\ SubSeq(a, 1, i - 1) = SubSeq(b, 1, i - 1)
          /\ a[i] < b[i]

FrameKeys == CodecKeys \cup {<<97, 10>>}

FrameEntries == [Key : FrameKeys, Value : CodecValues, IsDeleted : BOOLEAN]

RECURSIVE FileBytes(_)
FileBytes(entries) ==
    IF entries = <<>> THEN <<10, 60, 109, 101, 116, 97, 100, 97, 116, 97, 62, 10>>
    ELSE EncodeSSTEntry(entries[1].Key, entries[1].Value, entries[1].IsDeleted)
         \o FileBytes(Tail(entries))

\* The bytes behind the first token of ScanLines: behind the first newline.
AfterLine(bytes) ==
    LET nl == {i \in DOMAIN bytes : bytes[i] = 10}
    IN  IF nl = {} THEN <<>> ELSE SubSeq(bytes, Min(nl) + 1, Len(bytes))

\* SST.FindKey(key) on the bytes of the file: the loop over scanner.Scan().
RECURSIVE FindKey(_, _)
FindKey(bytes, key) ==
    IF bytes = <<>> THEN [err |-> "", found |-> FALSE]
    ELSE LET entry == ParseSSTLine(ScanLine(bytes))
         IN  IF entry.err = "sst eof reached" THEN [err |-> "", found |-> FALSE]
             ELSE IF entry.err # "" THEN [err |-> entry.err, found |-> FALSE]
             ELSE IF entry.Key = key THEN [err |-> "", found |-> TRUE, entry |-> entry]
             ELSE FindKey(AfterLine(bytes), key)

\* The records compact reads from one input: scanner.Scan() and
\* parseSSTLine, until the scanner ends or parseSSTLine returns an error.
RECURSIVE ScanEntries(_)
ScanEntries(bytes) ==
    IF bytes = <<>> THEN <<>>
    ELSE LET entry == ParseSSTLine(ScanLine(bytes))
         IN  IF entry.err # "" THEN <<>>
             ELSE <<[Key |-> entry.Key, Value |-> entry.Value, IsDeleted |-> entry.IsDeleted]>>
                  \o ScanEntries(AfterLine(bytes))

InitFrame ==
    /\ Startup({})
    /\ \E n \in 1..MaxEntries : \E entries \in [1..n -> FrameEntries] :
          /\ \A i \in 1..(n - 1) : BytesLess(entries[i].Key, entries[i + 1].Key)
          /\ pure = [stage |-> "entries", entries |-> entries]

FrameWrite ==
    /\ pure.stage = "entries"
    /\ pure' = [stage |-> "file", entries |-> pure.entries, bytes |-> FileBytes(pure.entries)]
    /\ UNCHANGED <<lsmVars, regVars, disk, compVars, lastWrite, hist, wreq, ctx>>

FrameFindKey(i) ==
    /\ pure.stage = "file"
    /\ i \in DOMAIN pure.entries
    /\ pure' = [stage |-> "found", entries |-> pure.entries, bytes |-> pure.bytes,
                want |-> pure.entries[i],
                res |-> FindKey(pure.bytes, pure.entries[i].Key)]
    /\ UNCHANGED <<lsmVars, regVars, disk, compVars, lastWrite, hist, wreq, ctx>>

FrameScan ==
    /\ pure.stage = "file"
    /\ pure' = [stage |-> "scanned", entries |-> pure.entries, bytes |-> pure.bytes,
                res |-> ScanEntries(pure.bytes)]
    /\ UNCHANGED <<lsmVars, regVars, disk, compVars, lastWrite, hist, wreq, ctx>>

NextFrame ==
    \/ FrameWrite
    \/ \E i \in 1..MaxEntries : FrameFindKey(i)
    \/ FrameScan

SpecFrame == InitFrame /\ [][NextFrame]_vars

\* Registry calls on their own: ListSST and updateBatch applied, with any
\* level, states and count, to the registries the compactors and the
\* cleaner produce from InitClean.  The call ends the behaviour, so that
\* its result stays next to the registry it was made on.
ListCounts == {0, 1, 2, MAX_SST_PER_LEVEL}

ListStates == {{}, {SST_FLUSHED}, {SST_COMPACTED}, {SST_COMPACTING},
               {SST_FLUSHED, SST_COMPACTED}}

CallLevels == 0..MaxLevel

\* m.levels[level] of a level that is not a key of the map is a nil
\* *SSTLevel: reading its ssts or locking its mu is a nil pointer
\* dereference, a run-time panic nothing recovers.  The deferred unlock of
\* m.mu runs while the panic unwinds.
ListSSTCall(level, states, count) ==
    /\ pure = NoCall
    /\ mgrMu = {}
    /\ pure' = IF level \notin DOMAIN levels
               THEN [stage |-> "listed", level |-> level, states |-> states,
                     count |-> count, panic |-> TRUE,
                     before |-> levels, locks |-> <<mgrMu, levelMu>>]
               ELSE [stage |-> "listed", level |-> level, states |-> states,
                     count |-> count, panic |-> FALSE,
                     res |-> ListSST(level, states, count),
                     before |-> levels, locks |-> <<mgrMu, levelMu>>]
    /\ UNCHANGED <<lsmVars, regVars, disk, compVars, lastWrite, hist, wreq, ctx>>

UpdateBatchCall(level, state) ==
    /\ pure = NoCall
    /\ mgrMu = {}
    /\ level \notin levelMu
    /\ IF level \notin DOMAIN levels
       THEN /\ pure' = [stage |-> "updated", level |-> level, panic |-> TRUE,
                        before |-> levels, locks |-> <<mgrMu, levelMu>>]
            /\ UNCHANGED regVars
       ELSE /\ pure' = [stage |-> "updated", level |-> level, panic |-> FALSE,
                        before |-> levels, locks |-> <<mgrMu, levelMu>>]
            /\ levels' = UpdateBatch(level, ListSST(level, {SST_FLUSHED}, MAX_SST_PER_LEVEL), state)
            /\ levelMu' = levelMu \cup {level}
            /\ UNCHANGED <<counter, mgrMu>>
    /\ UNCHANGED <<lsmVars, disk, compVars, lastWrite, hist, wreq, ctx>>

NextList ==
    \/ pure = NoCall /\ NextReg
    \/ \E level \in CallLevels, states \in ListStates, count \in ListCounts :
          ListSSTCall(level, states, count)
    \/ \E level \in CallLevels : UpdateBatchCall(level, SST_COMPACTED)

SpecList == InitClean /\ [][NextList]_vars

\* ------------------------------------------------------------------ claims

WritersIdle == \A w \in Writers : wpc[w] = "idle"

\* A result of Get that a caller reads as "no such key": no error and the
\* empty value.
Absent(r) == ~r.err /\ r.Value = ""

\* C1: whenever no write is in progress, get(k) returns the value of the
\* last set(k, v) when the last write to k was a set, and absent when it
\* was a delete.
C1_RoundTrip ==
    WritersIdle =>
        \A k \in Keys :
            /\ lastWrite[k].op = "set" =>
                  \A r \in Get(k) : ~r.err /\ r.Value = lastWrite[k].Value
            /\ lastWrite[k].op = "delete" =>
                  \A r \in Get(k) : Absent(r)

\* The memtables that can still hold the newest record of a key: the
\* active one, then the frozen ones, newest first.
RECURSIVE Reverse(_)
Reverse(s) == IF s = <<>> THEN <<>> ELSE Reverse(Tail(s)) \o <<Head(s)>>

MemtablesNewestFirst == <<Memtable>> \o Reverse(flushingMemtables)

HoldersOf(k) == {i \in DOMAIN MemtablesNewestFirst : k \in DOMAIN mtStore[MemtablesNewestFirst[i]]}

\* C2: after delete(k) has returned as the last write to k, the record of k
\* in the newest memtable holding one is a tombstone (deleted = true), and
\* get(k) returns absent, whatever older records frozen memtables or the
\* SSTs of the registry hold.
C2_DeleteTombstone ==
    WritersIdle =>
        \A k \in Keys :
            lastWrite[k].op = "delete" =>
                /\ HoldersOf(k) # {} =>
                      mtStore[MemtablesNewestFirst[Min(HoldersOf(k))]][k].Deleted
                /\ \A r \in Get(k) : Absent(r)

\* The record of a key in a file, read with the format the file has.
FileRecord(f, k) ==
    IF f # NoFile /\ \E i \in DOMAIN f.lines : f.lines[i].Key = k
    THEN LET i == Min({j \in DOMAIN f.lines : f.lines[j].Key = k})
         IN  <<[Value |-> f.lines[i].Value, Deleted |-> f.lines[i].IsDeleted]>>
    ELSE <<>>

MemtableRecord(m, k) ==
    IF k \in DOMAIN m THEN <<[Value |-> m[k].Value, Deleted |-> m[k].Deleted]>> ELSE <<>>

RECURSIVE Flatten(_)
Flatten(ss) == IF ss = <<>> THEN <<>> ELSE Head(ss) \o Flatten(Tail(ss))

\* The records of a key in the order C3 gives: the active memtable, the
\* frozen memtables newest first, then level 0 newest first, level 1
\* newest first, and so on.
SearchOrder(k) ==
    LET mts == MemtablesNewestFirst
        lv == SortedSeq(DOMAIN levels)
        ofLevel(l) == Flatten([i \in DOMAIN levels[l] |->
                                 FileRecord(FileOf(Reverse(levels[l])[i].FileName), k)])
    IN  Flatten([i \in DOMAIN mts |-> MemtableRecord(mtStore[mts[i]], k)])
        \o Flatten([i \in DOMAIN lv |-> ofLevel(lv[i])])

\* C3: the first record of the search order alone decides get(k): its value
\* when it is live (also the empty string), absent when it is a tombstone
\* or when there is no record.
C3_SearchOrder ==
    WritersIdle =>
        \A k \in Keys : \A r \in Get(k) :
            IF SearchOrder(k) # <<>> /\ ~SearchOrder(k)[1].Deleted
            THEN ~r.err /\ r.Value = SearchOrder(k)[1].Value
            ELSE Absent(r)

\* A read-visible SST of the registry holds the lines a flush of m writes.
Published(m) ==
    \E l \in DOMAIN levels : \E i \in DOMAIN levels[l] :
        /\ levels[l][i].Status \in {SST_FLUSHED, SST_COMPACTING}
        /\ FileOf(levels[l][i].FileName) # NoFile
        /\ FileOf(levels[l][i].FileName).lines = FlushLines(m)

\* C4: the records of the newest frozen memtable stay readable by get while
\* it is in the flushing list (for the keys the active memtable does not
\* hold), and a frozen memtable has left the flushing list only when a
\* read-visible SST of the registry holds its records.
C4_FlushVisible ==
    /\ flushingMemtables # <<>> =>
          LET m == mtStore[flushingMemtables[Len(flushingMemtables)]]
          IN  \A k \in (DOMAIN m) \ (DOMAIN mtStore[Memtable]) :
                 m[k].Value # "" =>
                    \A r \in Get(k) : ~r.err /\ r.Value = m[k].Value
    /\ \A id \in 1..(Memtable - 1) :
          id \notin Range(flushingMemtables) => Published(mtStore[id])

\* The keys of the lines of the inputs.
InputKeys(inputs) == UNION {{inputs[i][j].Key : j \in DOMAIN inputs[i]} : i \in DOMAIN inputs}

\* The line of key k in the last (newest) input that holds one.
NewestLine(inputs, k) ==
    LET i == Max({j \in DOMAIN inputs : \E n \in DOMAIN inputs[j] : inputs[j][n].Key = k})
    IN  inputs[i][Min({n \in DOMAIN inputs[i] : inputs[i][n].Key = k})]

\* C5: the output of a compaction holds one record per distinct key of the
\* inputs, in ascending key order, and the key and value of each are those
\* of the newest input (the last of the batch) that holds the key.
C5_MergeLaw ==
    hist.comp # <<>> =>
        LET c == hist.comp[1]
            ks == SortedSeq(InputKeys(c.inputs))
        IN  /\ Len(c.out) = Len(ks)
            /\ \A i \in DOMAIN c.out :
                  /\ c.out[i].Key = ks[i]
                  /\ c.out[i].Value = NewestLine(c.inputs, ks[i]).Value

C7_OutputFlushedFirst ==
    hist.upd # <<>> =>
        LET u == hist.upd[1]
        IN  /\ u.level + 1 \in DOMAIN levels
            /\ \E i \in DOMAIN levels[u.level + 1] :
                  /\ levels[u.level + 1][i].FileName = u.out
                  /\ levels[u.level + 1][i].Status = SST_FLUSHED

\* The state the registry has for the SST of a file name.
StatusOf(lv, n) ==
    IF \E l \in DOMAIN lv : \E i \in DOMAIN lv[l] : lv[l][i].FileName = n
    THEN LET l == CHOOSE l \in DOMAIN lv : \E i \in DOMAIN lv[l] : lv[l][i].FileName = n
             i == CHOOSE i \in DOMAIN lv[l] : lv[l][i].FileName = n
         IN  lv[l][i].Status
    ELSE "absent"

\* The edges of the SST state machine; "absent" is an SST the registry
\* does not hold (not yet created, or removed).
LifecycleEdges ==
    {<<"absent", SST_FLUSHING>>, <<"absent", SST_COMPACTING>>,
     <<SST_FLUSHING, SST_FLUSHED>>, <<SST_FLUSHED, SST_COMPACTING>>,
     <<SST_COMPACTING, SST_COMPACTED>>, <<SST_COMPACTING, SST_FLUSHED>>,
     <<SST_COMPACTED, "absent">>}

\* C8: every step changes the state of an SST along an edge of the state
\* machine, or not at all.
C8_Lifecycle ==
    [][\A n \in FileNames :
          \/ StatusOf(levels, n) = StatusOf(levels', n)
          \/ <<StatusOf(levels, n), StatusOf(levels', n)>> \in LifecycleEdges]_vars

\* C9: an updateBatch that succeeded made a legal transition for every SST
\* of its batch (an illegal one fails and changes nothing), and set the
\* state of the SSTs of the batch and of no other SST.
C9_UpdateBatchValidated ==
    hist.upd # <<>> =>
        LET u == hist.upd[1]
        IN  \A i \in DOMAIN u.before :
               IF u.before[i].FileName \in u.names
               THEN /\ <<u.before[i].Status, u.state>> \in LifecycleEdges
                    /\ u.after[i].Status = u.state
               ELSE u.after[i].Status = u.before[i].Status

\* C10: in every level the ids of the SSTs are strictly increasing in the
\* order of the level's sequence (so pairwise distinct).
C10_MonotonicIds ==
    \A l \in DOMAIN levels :
        \A i, j \in DOMAIN levels[l] : i < j => levels[l][i].ID < levels[l][j].ID

\* C11: the trailer written for an SST descriptor parses, and the parse
\* yields the level and the id of the descriptor, in state FLUSHED, for
\* every level and every id.
C11_TrailerIntegrity ==
    pure.stage = "parsed" =>
        /\ pure.res.ok
        /\ pure.res.sst.Status = SST_FLUSHED
        /\ pure.res.sst.Level = pure.in.level
        /\ pure.res.sst.ID = pure.in.id

\* The process was started again and nothing was written since.
Recovered == hist.restarts > 0 /\ mtStore = <<NewMemtable>>

\* C12: after a new start of the process, get(k) returns v for every record
\* (k, v) of the memtable whose flush completed last, and a key that was
\* only in the active memtable when the process stopped (no file holds a
\* record of it) is absent.
C12_Durability ==
    Recovered =>
        /\ hist.flushed # <<>> =>
              LET f == FileOf(hist.flushed[1].name)
              IN  \A i \in DOMAIN f.lines :
                     \A r \in Get(f.lines[i].Key) :
                         ~r.err /\ r.Value = f.lines[i].Value
        /\ \A k \in DOMAIN hist.active :
              (\A f \in disk : \A i \in DOMAIN f.lines : f.lines[i].Key # k) =>
                  \A r \in Get(k) : Absent(r)

\* The names of the SSTs of a level sequence that are in state COMPACTED,
\* and of all its SSTs.
CompactedIn(ssts) == {ssts[i].FileName : i \in {j \in DOMAIN ssts : ssts[j].Status = SST_COMPACTED}}

NamesIn(ssts) == {ssts[i].FileName : i \in DOMAIN ssts}

C14_CodecRoundTrip ==
    pure.stage = "parsed" =>
        /\ FromLE32(SubSeq(pure.bytes, 1, 4)) = 13 + Len(pure.Key) + Len(pure.Value)
        /\ pure.res.err = ""
        /\ pure.res.Key = pure.Key
        /\ pure.res.Value = pure.Value
        /\ pure.res.IsDeleted = pure.IsDeleted

\* C14 for the line a scanner cuts from the bytes: the same round trip.
C14_ScannedRoundTrip ==
    (pure.stage = "parsed" /\ pure.via = "scanner") =>
        /\ pure.res.err = ""
        /\ pure.res.Key = pure.Key
        /\ pure.res.Value = pure.Value
        /\ pure.res.IsDeleted = pure.IsDeleted

C16_ResultSource ==
    \A key \in Keys : \A o \in Perms(DOMAIN levels) :
        \A sst \in OpenedLevels(o, key, NoData) :
            (FileOf(sst.FileName) # NoFile /\ TextFind(FileOf(sst.FileName), key).found)
                => sst.Status \in {SST_FLUSHED, SST_COMPACTING}

\* C17: with two writing threads, no step changes a memtable that has been
\* frozen (every memtable but the active one).
C17_FrozenImmutable ==
    [][\A id \in 1..(Memtable - 1) : mtStore'[id] = mtStore[id]]_vars

\* The workers started so far
Workers ==
    {<<"compactor", l>> : l \in DOMAIN cpc}
    \cup {<<"levelChecker", 0>>, <<"cleaner", 0>>, <<"flusher", 0>>}

\* A step in which a worker starts a unit of work: the flusher receives a
\* memtable, a compactor starts a compaction, the level checker starts a
\* compactor, the cleaner runs a pass.
StartsUnit ==
    \/ fpc = "recv" /\ fpc' = "flush"
    \/ \E l \in DOMAIN cpc : cpc[l] = "tick" /\ cpc'[l] # "tick"
    \/ DOMAIN cpc' # DOMAIN cpc
    \/ hist'.cleaned # hist.cleaned

\* C18, first half: once the context is cancelled no worker starts a unit
\* of work.
C18_NoNewUnit == [][ctx.done => ~StartsUnit]_vars

\* C18, second half: once the context is cancelled every worker exits.
C18_EventuallyExit == ctx.done ~> (Workers \subseteq ctx.exited)

\* C18: after the cancellation no worker starts a new unit and every worker
\* eventually exits.
C18_Cancellation == C18_NoNewUnit /\ C18_EventuallyExit

\* C18 for the flusher alone: once the context is cancelled the flusher
\* takes no further memtable from the queue.
C18_FlusherStops == [][ctx.done => ~(fpc = "recv" /\ fpc' = "flush")]_vars

C19_SelectionFlushed ==
    \A l \in DOMAIN levels :
        LET ssts == ListSST(l, {SST_FLUSHED}, MAX_SST_PER_LEVEL)
        IN  \A i \in DOMAIN ssts :
              /\ ssts[i].Status = SST_FLUSHED
              /\ \E j \in DOMAIN levels[l] : levels[l][j] = ssts[i]

\* C20: the step that ends a successful compaction of level l (updateBatch
\* returns nil) leaves every input in state COMPACTED at level l and the
\* output among the SSTs ListSST gives the compactor of level l+1, that is,
\* in state FLUSHED at level l+1.
C20_CompactionEnd ==
    [][\A l \in DOMAIN cpc :
         (cpc[l] = "updating" /\ cpc'[l] = "tick") =>
            LET job == cjob[l][1]
                elig == ListSST(l + 1, {SST_FLUSHED}, MaxFiles)'
            IN  /\ \A i \in DOMAIN job.ssts :
                      StatusOf(levels', job.ssts[i].FileName) = SST_COMPACTED
                /\ \E i \in DOMAIN elig : elig[i].FileName = job.out]_vars

\* C20, the inputs alone
C20_InputsCompacted ==
    [][\A l \in DOMAIN cpc :
         (cpc[l] = "updating" /\ cpc'[l] = "tick") =>
            \A i \in DOMAIN cjob[l][1].ssts :
                StatusOf(levels', cjob[l][1].ssts[i].FileName) = SST_COMPACTED]_vars

\* C21: a writer that waits in checkFlush to hand its frozen memtable to
\* the flusher (holding l.mu) is never faced with a flusher that waits for
\* l.mu to remove the memtable it flushed before: in that state the writer
\* waits for the flusher to receive and the flusher waits for the writer to
\* unlock, and no step of either is possible.
C21_NoMutualWait ==
    \A w \in Threads : ~(wpc[w] = "send" /\ lsmMu = w /\ fpc = "remove")

\* C22: while no updateBatch is between its Lock and its return, no lock of
\* the registry is held: neither m.mu nor the mu of any level.
C22_LocksReleased ==
    (\A l \in DOMAIN cpc : cpc[l] # "updating") => (mgrMu = {} /\ levelMu = {})

\* C23: the step in which compact returns an error after it has started
\* (the compactor goes back to wait for its tick without calling
\* updateBatch) leaves the registry as it was before the attempt: the
\* inputs are FLUSHED and the registry holds no SST for the output.
C23_FailureLeavesRegistry ==
    [][\A l \in DOMAIN cpc :
         (cpc[l] = "write" /\ cpc'[l] = "tick") =>
            /\ \A i \in DOMAIN cjob[l][1].ssts :
                  StatusOf(levels', cjob[l][1].ssts[i].FileName) = SST_FLUSHED
            /\ StatusOf(levels', cjob[l][1].out) = "absent"]_vars

\* C23, the inputs alone
C23_InputsUnchanged ==
    [][\A l \in DOMAIN cpc :
         (cpc[l] = "write" /\ cpc'[l] = "tick") =>
            \A i \in DOMAIN cjob[l][1].ssts :
                StatusOf(levels', cjob[l][1].ssts[i].FileName) = SST_FLUSHED]_vars

C24_ShortTickNoChange ==
    \A l \in DOMAIN cpc :
        (cpc[l] = "tick" /\ Len(ListSST(l, {SST_FLUSHED}, MAX_SST_PER_LEVEL)) < MAX_SST_PER_LEVEL)
            => ~ENABLED <<CompactTick(l)>>_vars

\* A compactor waits for its tick at a level that holds FLUSHED SSTs, but
\* fewer than MAX_SST_PER_LEVEL, after a compaction of the level has taken
\* a batch.
C24_Witness ==
    \E l \in DOMAIN cpc :
        /\ cpc[l] = "tick"
        /\ Len(ListSST(l, {SST_FLUSHED}, MAX_SST_PER_LEVEL)) \in 1..(MAX_SST_PER_LEVEL - 1)
        /\ hist.merged # {}

\* C25: after a FlushSST that returned nil, level 0 of the registry holds
\* the SST of the file it wrote, in state FLUSHED.
C25_FlushRegistered ==
    (hist.flushed # <<>> /\ hist.restarts = 0) =>
        /\ 0 \in DOMAIN levels
        /\ \E i \in DOMAIN levels[0] :
              /\ levels[0][i].FileName = hist.flushed[1].name
              /\ levels[0][i].Status = SST_FLUSHED

\* The SST the registry holds in level 0 for a file name, if any
Level0SSTs(n) ==
    IF 0 \in DOMAIN levels
    THEN {levels[0][i] : i \in {j \in DOMAIN levels[0] : levels[0][j].FileName = n}}
    ELSE {}

\* C26: the frozen memtables reach the flusher in the order in which they
\* were frozen, each once, and of two level-0 SSTs of the registry that
\* were flushed one after the other the later one has the higher id.
C26_FlushOrder ==
    /\ \A i, j \in DOMAIN flushingMemtables : i < j => flushingMemtables[i] < flushingMemtables[j]
    /\ \A i, j \in DOMAIN hist.order : i < j =>
          /\ hist.order[i] # hist.order[j]
          /\ \A a \in Level0SSTs(hist.order[i]), b \in Level0SSTs(hist.order[j]) : a.ID < b.ID

\* C26, the queue alone: the memtables are handed to the flusher in the
\* order of their freezing and no file is written for two flushes.
C26_QueueOrder ==
    /\ \A i, j \in DOMAIN flushingMemtables : i < j => flushingMemtables[i] < flushingMemtables[j]
    /\ \A i, j \in DOMAIN hist.order : i < j => hist.order[i] # hist.order[j]
    /\ (fpc # "recv" /\ hist.restarts = 0) => (fmt \in Range(flushingMemtables) /\ fmt < Memtable)

\* The number of SSTs of a level in state FLUSHED
FlushedCount(l) == Len(ListSST(l, {SST_FLUSHED}, Len(levels[l]) + 1))

\* C27: whenever a level holds n >= MAX_SST_PER_LEVEL SSTs in state
\* FLUSHED, eventually MAX_SST_PER_LEVEL of them have left that state (they
\* are COMPACTED) and level+1 exists.
C27_Progress ==
    \A l \in 0..(MaxLevel + 1) : \A n \in MAX_SST_PER_LEVEL..(2 * MAX_SST_PER_LEVEL) :
        (l \in DOMAIN levels /\ FlushedCount(l) = n)
            ~> (l \in DOMAIN levels /\ FlushedCount(l) <= n - MAX_SST_PER_LEVEL
                /\ l + 1 \in DOMAIN levels)

\* C27 for the first compaction of a level alone
C27_FirstProgress ==
    \A l \in 0..(MaxLevel + 1) :
        (l \in DOMAIN levels /\ FlushedCount(l) = 2 * MAX_SST_PER_LEVEL)
            ~> (l \in DOMAIN levels /\ FlushedCount(l) <= MAX_SST_PER_LEVEL
                /\ l + 1 \in DOMAIN levels)

\* C28: no two compactors of CompactorManager.compactors have the same
\* level, and every level the registry tracked when the compactors were
\* last started or checked has one.
C28_OneCompactorPerLevel ==
    /\ \A i, j \in DOMAIN compactors : i # j => compactors[i] # compactors[j]
    /\ ExistingLevels = DOMAIN cpc

\* The level checker has started a compactor for a level that a compaction
\* created, and has run again since.
C28_Witness ==
    /\ Len(compactors) >= 2
    /\ hist.merged # {}

\* C29: parseSSTLine returns ErrSSTEntryEOF for the empty line, an error for
\* a line shorter than 13 bytes or with a wrong total length, and never
\* slices beyond the line; a record it returns lies inside the line.
C29_DecodeTotal ==
    pure.stage = "decoded" =>
        /\ pure.res.err # "slice out of range"
        /\ Len(pure.line) = 0 => pure.res.err = "sst eof reached"
        /\ Len(pure.line) \in 1..12 => pure.res.err \in {"line too short", "data length is incorrect"}
        /\ pure.res.err = "" => 13 + Len(pure.res.Key) + Len(pure.res.Value) <= Len(pure.line)

\* C30: on a file of written records, FindKey of a written key returns the
\* record that was written for it, and reading the file record by record
\* returns every written record, whatever bytes the keys, the values and
\* the length fields hold.
C30_LengthFramed ==
    /\ pure.stage = "found" =>
          /\ pure.res.err = ""
          /\ pure.res.found
          /\ pure.res.entry.Key = pure.want.Key
          /\ pure.res.entry.Value = pure.want.Value
          /\ pure.res.entry.IsDeleted = pure.want.IsDeleted
    /\ pure.stage = "scanned" => pure.res = pure.entries

\* C31: ListSST on a level of the registry returns at most count SSTs, all
\* of the level and in one of the states, in the order of the level and by
\* ascending ID; they are the first count such SSTs; the registry and its
\* locks are as they were.
Matching(ssts, states) == SortedSeq({i \in DOMAIN ssts : ssts[i].Status \in states})

C31_ListFirst ==
    (pure.stage = "listed" /\ ~pure.panic) =>
        LET ssts == pure.before[pure.level]
            idx == Matching(ssts, pure.states)
            res == pure.res
        IN  /\ Len(res) <= pure.count
            /\ \A i \in DOMAIN res : res[i].Level = pure.level /\ res[i].Status \in pure.states
            /\ \A i, j \in DOMAIN res : i < j => res[i].ID <= res[j].ID
            /\ Len(res) <= Len(idx)
            /\ \A j \in DOMAIN res : res[j] = ssts[idx[j]]
            /\ Len(res) < pure.count => Len(res) = Len(idx)
            /\ levels = pure.before
            /\ <<mgrMu, levelMu>> = pure.locks

\* C33: ListSST and updateBatch on a level the registry does not track end
\* without a panic, with the registry as it was and with the locks as they
\* were.
C33_UnknownLevel ==
    (pure.stage \in {"listed", "updated"} /\ pure.level \notin DOMAIN pure.before) =>
        /\ ~pure.panic
        /\ levels = pure.before
        /\ <<mgrMu, levelMu>> = pure.locks

\* C32: the registry a new start of the process loads from the directory
\* holds no SST whose file lacks the done marker, and holds every file that
\* ends with it.
Registered == {levels[l][i].FileName : <<l, i>> \in UNION {{l} \X DOMAIN levels[l] : l \in DOMAIN levels}}

C32_LoadSkipsIncomplete ==
    hist.restarts > 0 =>
        /\ \A f \in disk : ~f.done => f.name \notin Registered
        /\ \A f \in disk : f.done => f.name \in Registered

C32_Witness ==
    /\ hist.restarts > 0
    /\ \E f \in disk : ~f.done
    /\ \E f \in disk : f.done /\ f.name \in Registered

====
